---- MODULE Spec2Model ----
(***************************************************************************)
(* Model of the Sudoku engine (class SudokuGenerator) and of the parts of  *)
(* SudokuGame that drive it.  Grids are functions over 0..N-1, as the      *)
(* JavaScript arrays are; 0 is the empty cell.                             *)
(***************************************************************************)
EXTENDS Integers, Sequences, FiniteSets, TLC

VARIABLES
    size,        \* SudokuGenerator.size
    boxSize,     \* SudokuGenerator.boxSize
    grid,        \* SudokuGenerator.grid
    solution,    \* SudokuGenerator.solution
    pc,          \* position of the caller: which operation ran last
                 \* ("unfinished": one that was not followed to its end)
    request,     \* SudokuGame.difficulty and gridSize, and the environment
                 \* (and at, the time of the newGame call, where time passes)
    result,      \* {puzzle, solution} returned by generatePuzzle, or "none"
    genTrace,    \* what generateComplete did: attempts run, fallback used
    currentGrid, \* caller-owned grid (SudokuGame.currentGrid / a grid passed in)
    passedGrid,  \* the grid as it was when it was passed to solvePuzzle
    solveGrid,   \* the grid object passed to solvePuzzle, as left on return
    solved,      \* return value of solvePuzzle (FALSE before any call)
    hint,        \* return value of getHint: Null or {row, col, value}
    hintsUsed,   \* SudokuGame.hintsUsed
    heap,        \* the grid objects alive, by identity
    generator,   \* the objects SudokuGenerator.grid and .solution refer to
    held,        \* a {puzzle, solution} a caller keeps, as objects, or NoHeld
    run,         \* the recursion in progress: working grid and call stack
    gen,         \* generateComplete in progress: attempts, clock, history
    startTime,   \* SudokuGame.startTime (0 is null)
    timerInterval, \* SudokuGame.timerInterval is set
    now,         \* Date.now()
    cells,       \* the value shown in each cell input of the page (0 is '')
    givenCells,  \* SudokuGame.givenCells
    scores,      \* number of entries of sudokuScores in localStorage
    savedGame,   \* sudokuGameState is in localStorage
    winModal,    \* the win modal is shown
    completions, \* runs of completePuzzle since the game was started
    pendingSaves \* saveGameState callbacks of newGame that are still to run

engineVars == <<size, boxSize, grid, solution, pc, request, result, genTrace,
                currentGrid, passedGrid, solveGrid, solved, hint, hintsUsed>>
heapVars == <<heap, generator, held>>
stepVars == <<run, gen>>
timerVars == <<startTime, timerInterval, now>>
pageVars == <<cells, givenCells, scores, savedGame, winModal, completions,
              pendingSaves>>

vars == <<engineVars, heapVars, stepVars, timerVars, pageVars>>

----------------------------------------------------------------------------
(* Bounds of the model *)

\* the PRNG seeds tried are 0..MaxSeed
MaxSeed == 1
\* cells placed on the validator's grid
MaxPlaced == 1
\* empty cells of the grids handed to the solver directly
MaxBlanks == 6
\* a loop over an array is followed for at most 2^MaxLoopLog2 iterations
MaxLoopLog2 == 7
\* one fill attempt is followed for at most 2^MaxFillLog2 steps
MaxFillLog2 == 12
\* one call of the solver is followed for at most 2^MaxSolveLog2 steps
MaxSolveLog2 == 14
\* the clock is followed for MaxTicks ticks after the page is loaded
MaxTicks == 3
\* score entries saved over a page session
MaxScores == 2
\* saveGameState callbacks of newGame pending at one time
MaxPending == 1
\* hints taken in one game
MaxHints == 2
\* the digits typed into a cell are 0..MaxDigit
MaxDigit == 1
\* the player types into the first MaxTypedCells cells that are not given
MaxTypedCells == 2

----------------------------------------------------------------------------
(* Program constants *)

Sizes == {4, 6, 9}
\* generateComplete: const maxAttempts = 10
maxAttempts == 10
\* fillGrid: const timeout = 5000
timeout == 5000

Idx(n) == 0 .. (n - 1)

\* a function given by an expression, as the explicit table of its values
Table(f) == f @@ << >>

ZeroGrid(n) == Table([r \in Idx(n) |-> Table([c \in Idx(n) |-> 0])])

\* Math.sqrt, on the perfect squares the supported sizes use
Sqrt(n) == CHOOSE b \in 0 .. n : b * b = n

\* setSize: the box size chosen for a grid size
BoxSizeOf(n) ==
    IF n = 4 THEN 2
    ELSE IF n = 6 THEN 2
    ELSE IF n = 9 THEN 3
    ELSE Sqrt(n)

----------------------------------------------------------------------------
(* Math.random: a linear congruential generator; the state is threaded     *)
(* through every draw, the value returned is RandOut(s) / RandRes.         *)

RandMod == 65536
RandRes == 64
RandMul == 25173
RandInc == 13849

RandNext(s) == (s * RandMul + RandInc) % RandMod
RandOut(s) == s \div (RandMod \div RandRes)

\* Math.floor(Math.random() * n) for the draw u / RandRes
FloorRandom(u, n) == (u * n) \div RandRes

----------------------------------------------------------------------------
(* Validator *)

\* BoxWindow without the special case for size 6
BoxWindow_Square(n, b, row, col) ==
    LET startRow == (row \div b) * b
        startCol == (col \div b) * b
    IN  {<<startRow + i, startCol + j>> : i \in Idx(b), j \in Idx(b)}

\* the cells scanned by the box check of isValid for the cell (row, col):
\* the 2x3 window for size 6, the boxSize x boxSize window otherwise
BoxWindow(n, b, row, col) ==
    IF n = 6
    THEN LET boxRow == row \div 2
             boxCol == col \div 3
             startRow == boxRow * 2
             startCol == boxCol * 3
         IN  {<<startRow + i, startCol + j>> : i \in 0 .. 1, j \in 0 .. 2}
    ELSE LET startRow == (row \div b) * b
             startCol == (col \div b) * b
         IN  {<<startRow + i, startCol + j>> : i \in Idx(b), j \in Idx(b)}

\* isValid(row, col, num) on the generator's fields (g = this.grid,
\* n = this.size, b = this.boxSize)
isValid(g, n, b, row, col, num) ==
    /\ \A x \in Idx(n) : g[row][x] # num
    /\ \A x \in Idx(n) : g[x][col] # num
    /\ \A cell \in BoxWindow(n, b, row, col) : g[cell[1]][cell[2]] # num

\* grid.length
GridLength(g) == Cardinality(DOMAIN g)

\* BoxWindowForGrid with the origin of the 2x3 window computed from a box
\* width of 2
BoxWindowForGrid_Shifted(n, row, col) ==
    IF n = 6
    THEN LET startRow == (row \div 2) * 2
             startCol == (col \div 2) * 2
         IN  {<<startRow + i, startCol + j>> : i \in 0 .. 1, j \in 0 .. 2}
    ELSE LET boxSize_ == Sqrt(n)
             startRow == (row \div boxSize_) * boxSize_
             startCol == (col \div boxSize_) * boxSize_
         IN  {<<startRow + i, startCol + j>> :
                 i \in Idx(boxSize_), j \in Idx(boxSize_)}

\* BoxWindowForGrid with the window of a 6 x 6 grid 3 rows by 2 columns
BoxWindowForGrid_Tall(n, row, col) ==
    IF n = 6
    THEN LET startRow == (row \div 3) * 3
             startCol == (col \div 2) * 2
         IN  {<<startRow + i, startCol + j>> : i \in 0 .. 2, j \in 0 .. 1}
    ELSE LET boxSize_ == Sqrt(n)
             startRow == (row \div boxSize_) * boxSize_
             startCol == (col \div boxSize_) * boxSize_
         IN  {<<startRow + i, startCol + j>> :
                 i \in Idx(boxSize_), j \in Idx(boxSize_)}

\* the cells scanned by the box check of isValidForGrid: as in isValid, with
\* the size taken from the grid and boxSize = Math.sqrt(size)
BoxWindowForGrid(n, row, col) ==
    IF n = 6
    THEN LET boxRow == row \div 2
             boxCol == col \div 3
             startRow == boxRow * 2
             startCol == boxCol * 3
         IN  {<<startRow + i, startCol + j>> : i \in 0 .. 1, j \in 0 .. 2}
    ELSE LET boxSize_ == Sqrt(n)
             startRow == (row \div boxSize_) * boxSize_
             startCol == (col \div boxSize_) * boxSize_
         IN  {<<startRow + i, startCol + j>> :
                 i \in Idx(boxSize_), j \in Idx(boxSize_)}

\* isValidForGrid(grid, row, col, num): the size comes from the grid
isValidForGrid(g, row, col, num) ==
    LET n == GridLength(g)
    IN  /\ \A x \in Idx(n) : g[row][x] # num
        /\ \A x \in Idx(n) : g[x][col] # num
        /\ \A cell \in BoxWindowForGrid(n, row, col) :
               g[cell[1]][cell[2]] # num

----------------------------------------------------------------------------
(* Grid filler *)

\* createFallbackGrid: every cell of this.grid is overwritten
createFallbackGrid(n, b) ==
    [row \in Idx(n) |-> [col \in Idx(n) |->
        ((row * b + (row \div b) + col) % n) + 1]]

\* [shuffled[i], shuffled[j]] = [shuffled[j], shuffled[i]], 0-based
Swap(seq, i, j) ==
    [seq EXCEPT ![i + 1] = seq[j + 1], ![j + 1] = seq[i + 1]]

\* one iteration of the loop of shuffleArray: s.i is the loop index, s.arr
\* the array shuffled, s.rng the generator state
ShuffleStep(s) ==
    LET j == FloorRandom(RandOut(s.rng), s.i + 1)
    IN  [arr |-> Swap(s.arr, s.i, j), i |-> s.i - 1, rng |-> RandNext(s.rng)]

RECURSIVE ShuffleLoop(_, _)
\* up to 2^d iterations of the loop, which ends when i > 0 fails
ShuffleLoop(s, d) ==
    IF ~(s.i > 0) THEN s
    ELSE IF d = 0 THEN ShuffleStep(s)
    ELSE ShuffleLoop(ShuffleLoop(s, d - 1), d - 1)

\* shuffleArray(array): Fisher-Yates on a copy; returns the state of the
\* loop at its end: the copy (arr) and the generator state after the draws
shuffleArray(array, rng) ==
    ShuffleLoop([arr |-> array, i |-> Len(array) - 1, rng |-> rng],
                MaxLoopLog2)

\* Array.from({length: n}, (_, i) => i + 1)
OneTo(n) == [i \in 1 .. n |-> i]

\* Date.now() - startTime at the given cell visit of one fill attempt, on a
\* machine that spends ms milliseconds per visit
Elapsed(visits, ms) == visits * ms

\* The recursion of fillGridRecursive runs on an explicit call stack.  A
\* frame is one activation: its arguments row and col, the shuffled numbers
\* (empty while the activation has not reached the shuffle, and in the
\* activations that only forward a call), and k, the index of the number it
\* has placed.  m.ret is "call" when the top activation has just been
\* entered, and the value returned to the top activation ("true" or
\* "false") otherwise.
Frame(row, col) == [row |-> row, col |-> col, numbers |-> <<>>, k |-> 0]

Top(stack) == stack[Len(stack)]
Pop(stack) == SubSeq(stack, 1, Len(stack) - 1)
SetTop(stack, f) == [stack EXCEPT ![Len(stack)] = f]

\* return v from the top activation
Return(m, v) == [m EXCEPT !.stack = Pop(@), !.ret = v]

RECURSIVE TryNumbers(_, _, _, _, _)
\* the for (let num of numbers) loop in the activation f, from the k-th
\* number on: a number that fails isValid is passed over, the first one
\* that passes is placed and the next cell is called; return false when the
\* loop runs out
TryNumbers(m, n, b, f, k) ==
    IF k > Len(f.numbers)
    THEN Return(m, "false")
    ELSE IF isValid(m.grid, n, b, f.row, f.col, f.numbers[k])
    THEN [m EXCEPT !.grid[f.row][f.col] = f.numbers[k],
                   !.stack = Append(SetTop(@, [f EXCEPT !.k = k]),
                                    Frame(f.row, f.col + 1)),
                   !.ret = "call"]
    ELSE TryNumbers(m, n, b, f, k + 1)

\* const numbers = this.shuffleArray(...) in the activation f, and the loop
\* over the numbers; sh is what shuffleArray returned
TryShuffled(m, n, b, f, sh) ==
    TryNumbers([m EXCEPT !.rng = sh.rng], n, b,
               [f EXCEPT !.numbers = sh.arr], 1)

\* the top activation forwards to fillGridRecursive(row, col)
Forward(m, f, row, col) ==
    [m EXCEPT !.stack = Append(SetTop(@, f), Frame(row, col)),
              !.ret = "call"]

\* fillGridRecursive(row, col, startTime, timeout): one step of the top
\* activation, from its entry or from the return of the call it made, up to
\* its next call or its return
\* the activation f is entered: here is m with the visit counted
Enter(m, here, f, n, b, ms) ==
    IF Elapsed(m.visits, ms) > timeout
    THEN Return(here, "false")
    ELSE IF f.row = n
    THEN Return(here, "true")
    ELSE IF f.col = n
    THEN Forward(here, f, f.row + 1, 0)
    ELSE IF m.grid[f.row][f.col] # 0
    THEN Forward(here, f, f.row, f.col + 1)
    ELSE TryShuffled(here, n, b, f, shuffleArray(OneTo(n), m.rng))

\* the activation f going on after a failed call without the reset of its
\* cell
Resume_NoReset(m, f, n, b) ==
    IF f.k = 0
    THEN Return(m, m.ret)
    ELSE IF m.ret = "true"
    THEN Return(m, "true")
    ELSE TryNumbers(m, n, b, f, f.k + 1)

\* the call made by the activation f has returned m.ret
Resume(m, f, n, b) ==
    IF f.k = 0
    THEN Return(m, m.ret)
    ELSE IF m.ret = "true"
    THEN Return(m, "true")
    ELSE TryNumbers([m EXCEPT !.grid[f.row][f.col] = 0], n, b, f, f.k + 1)

fillGridRecursive(m, n, b, ms) ==
    IF m.ret = "call"
    THEN Enter(m, [m EXCEPT !.visits = @ + 1], Top(m.stack), n, b, ms)
    ELSE Resume(m, Top(m.stack), n, b)

\* the outermost activation has returned
Returned(m) == m.ret # "call" /\ m.stack = <<>>

RECURSIVE RunFill(_, _, _, _, _)
\* up to 2^d steps of the recursion, stopping when it has returned
RunFill(m, n, b, ms, d) ==
    IF Returned(m) THEN m
    ELSE IF d = 0 THEN fillGridRecursive(m, n, b, ms)
    ELSE RunFill(RunFill(m, n, b, ms, d - 1), n, b, ms, d - 1)

\* what one attempt leaves: m is the recursion where it was left
FillResult(m) ==
    [grid |-> m.grid, rng |-> m.rng, visits |-> m.visits,
     returned |-> Returned(m), ok |-> m.ret = "true"]

\* fillGrid(): one attempt on this.grid = g, timed from its own start;
\* ok is the value returned
fillGrid(g, n, b, ms, rng) ==
    FillResult(RunFill([grid |-> g, visits |-> 0, rng |-> rng,
                        stack |-> <<Frame(0, 0)>>, ret |-> "call"],
                       n, b, ms, MaxFillLog2))

\* milliseconds per cell visit of a machine that is not under load
IdleMs == 10

\* the clock of attempt number attempts (0-based): the first env.loaded
\* attempts of a call run under load, at env.ms milliseconds per visit
MsOf(env, attempts) == IF attempts < env.loaded THEN env.ms ELSE IdleMs

RECURSIVE generateCompleteFrom(_, _, _, _, _)
RECURSIVE Attempt(_, _, _, _, _)
\* the while loop of generateComplete from the given attempt count on, and
\* the fallback after it.  Returns this.grid, this.solution, the attempts
\* started, whether the fallback was used, and the rng state; returned is
\* FALSE when an attempt was not followed to its end.
generateCompleteFrom(attempts, n, b, env, rng) ==
    IF attempts < maxAttempts
    THEN Attempt(attempts, n, b, env,
                 fillGrid(ZeroGrid(n), n, b, MsOf(env, attempts), rng))
    ELSE [grid |-> createFallbackGrid(n, b),
          solution |-> createFallbackGrid(n, b),
          attempts |-> attempts, fallback |-> TRUE, rng |-> rng,
          returned |-> TRUE]

\* the body of the while loop for the attempt whose fillGrid() gave f
Attempt(attempts, n, b, env, f) ==
    IF f.ok
    THEN [grid |-> f.grid, solution |-> f.grid,
          attempts |-> attempts + 1, fallback |-> FALSE,
          rng |-> f.rng, returned |-> f.returned]
    ELSE IF f.returned
    THEN generateCompleteFrom(attempts + 1, n, b, env, f.rng)
    ELSE [grid |-> f.grid, solution |-> ZeroGrid(n),
          attempts |-> attempts + 1, fallback |-> FALSE,
          rng |-> f.rng, returned |-> FALSE]

\* generateComplete()
generateComplete(n, b, env, rng) == generateCompleteFrom(0, n, b, env, rng)

----------------------------------------------------------------------------
(* Puzzle carver *)

\* removalPercentage[difficulty] || 0.6, in percent
removalPercentage(difficulty) ==
    CASE difficulty = 1 -> 30
      [] difficulty = 2 -> 40
      [] difficulty = 3 -> 50
      [] difficulty = 4 -> 60
      [] difficulty = 5 -> 65
      [] OTHER -> 60

\* ToRemove with Math.round in place of Math.floor
ToRemove_Rounded(n, difficulty) ==
    ((n * n) * removalPercentage(difficulty) + 50) \div 100

\* Math.floor(totalCells * percentage)
ToRemove(n, difficulty) == ((n * n) * removalPercentage(difficulty)) \div 100

\* positions: all [i, j] in row-major order
Positions(n) == [k \in 1 .. n * n |-> <<(k - 1) \div n, (k - 1) % n>>]

\* the first min(toRemove, length) shuffled positions
RemovedPositions(shuffled, toRemove) ==
    {shuffled[i] : i \in {k \in 1 .. Len(shuffled) : k - 1 < toRemove}}

\* Carve on a copy made with the indices swapped
Carve_Transposed(g, n, removed) ==
    [row \in Idx(n) |-> [col \in Idx(n) |->
        IF <<row, col>> \in removed THEN 0 ELSE g[col][row]]]

\* the removal loop of generatePuzzle on the copy of the complete grid
Carve(g, n, removed) ==
    [row \in Idx(n) |-> [col \in Idx(n) |->
        IF <<row, col>> \in removed THEN 0 ELSE g[row][col]]]

\* generatePuzzle from the shuffle on: gc is what generateComplete left,
\* sh what shuffleArray(positions) returned
RemoveCells(difficulty, n, gc, sh) ==
    [size |-> n, boxSize |-> BoxSizeOf(n), grid |-> gc.grid,
     solution |-> gc.solution,
     puzzle |-> Carve(gc.grid, n,
                      RemovedPositions(sh.arr, ToRemove(n, difficulty))),
     shuffled |-> sh.arr,
     attempts |-> gc.attempts, fallback |-> gc.fallback,
     returned |-> gc.returned]

\* generatePuzzle after generateComplete, which left gc
CarvePuzzle(difficulty, n, gc) ==
    RemoveCells(difficulty, n, gc, shuffleArray(Positions(n), gc.rng))

\* generatePuzzle(difficulty, size): the fields after the call and the
\* returned {puzzle, solution}
generatePuzzle(difficulty, n, env) ==
    CarvePuzzle(difficulty, n,
                generateComplete(n, BoxSizeOf(n), env, env.seed))

----------------------------------------------------------------------------
(* Solver and hint provider *)

\* the least element of a set of numbers, -1 for the empty set
Least(set) ==
    IF set = {} THEN -1 ELSE CHOOSE k \in set : \A other \in set : k <= other

\* the first cell, in row-major order, with grid[row][col] === 0, as
\* row * size + col; -1 when the two scanning loops of solvePuzzle run out
FirstEmpty(g) ==
    Least({k \in Idx(GridLength(g) * GridLength(g)) :
              g[k \div GridLength(g)][k % GridLength(g)] = 0})

\* An activation of solvePuzzle: the empty cell it works on and the value
\* it has placed there (row = -1 before the scan has found the cell).
SolveFrame == [row |-> -1, col |-> -1, num |-> 0]

RECURSIVE SolveTry(_, _, _)
\* the for (num = 1; num <= size; num++) loop of the top activation f, from
\* num on: a value that fails isValidForGrid is passed over, the first one
\* that passes is placed and solvePuzzle(grid) is called; return false when
\* the loop runs out
SolveTry(m, f, num) ==
    IF ~(num <= GridLength(m.grid))
    THEN Return(m, "false")
    ELSE IF isValidForGrid(m.grid, f.row, f.col, num)
    THEN [m EXCEPT !.grid[f.row][f.col] = num,
                   !.stack = Append(SetTop(@, [f EXCEPT !.num = num]),
                                    SolveFrame),
                   !.ret = "call"]
    ELSE SolveTry(m, f, num + 1)

\* the two scanning loops of the activation f have stopped at the cell
\* k = row * size + col, or have run out (k = -1)
Scanned(m, f, n, k) ==
    IF k = -1
    THEN Return(m, "true")
    ELSE SolveTry(m, [f EXCEPT !.row = k \div n, !.col = k % n], 1)

\* the activation f giving up after the first failed call: the cell is
\* reset and false is returned, the values after f.num are not tried
SolveResume_GivesUp(m, f) ==
    IF m.ret = "true"
    THEN Return(m, "true")
    ELSE Return([m EXCEPT !.grid[f.row][f.col] = 0], "false")

\* the activation f resetting, after a failed call, the cell before its
\* own in the row as well
SolveResume_ResetsPrevious(m, f) ==
    IF m.ret = "true"
    THEN Return(m, "true")
    ELSE SolveTry([m EXCEPT !.grid[f.row][f.col] = 0,
                            !.grid[f.row][IF f.col > 0 THEN f.col - 1
                                          ELSE f.col] = 0],
                  f, f.num + 1)

\* the call made by the activation f has returned m.ret
SolveResume(m, f) ==
    IF m.ret = "true"
    THEN Return(m, "true")
    ELSE SolveTry([m EXCEPT !.grid[f.row][f.col] = 0], f, f.num + 1)

\* solvePuzzle without grid[row][col] = 0 after a failed call
solvePuzzle_NoUndo(m) ==
    IF m.ret = "call"
    THEN Scanned(m, Top(m.stack), GridLength(m.grid), FirstEmpty(m.grid))
    ELSE IF m.ret = "true"
    THEN Return(m, "true")
    ELSE SolveTry(m, Top(m.stack), Top(m.stack).num + 1)

\* solvePuzzle(grid): one step of the top activation, from its entry or from
\* the return of the call it made, up to its next call or its return
solvePuzzle(m) ==
    IF m.ret = "call"
    THEN Scanned(m, Top(m.stack), GridLength(m.grid), FirstEmpty(m.grid))
    ELSE SolveResume(m, Top(m.stack))

RECURSIVE RunSolve(_, _)
\* up to 2^d steps of the recursion, stopping when it has returned
RunSolve(m, d) ==
    IF Returned(m) THEN m
    ELSE IF d = 0 THEN solvePuzzle(m)
    ELSE RunSolve(RunSolve(m, d - 1), d - 1)

\* what the call leaves: m is the recursion where it was left
SolveResult(m) ==
    [grid |-> m.grid, returned |-> Returned(m), ok |-> m.ret = "true"]

\* a call solvePuzzle(g) run to its return: the value returned and the grid
\* as the call leaves it
Solve(g) ==
    SolveResult(RunSolve([grid |-> g, stack |-> <<SolveFrame>>,
                          ret |-> "call"], MaxSolveLog2))

\* emptyCells of getHint: the empty positions in row-major order
EmptyCells(g) ==
    SelectSeq(Positions(GridLength(g)), LAMBDA p : g[p[1]][p[2]] = 0)

\* the null returned by getHint
Null == [row |-> -1, col |-> -1, value |-> -1]

\* {row, col, value: solution[row][col]} for the cell [row, col]
HintAt(cell, sol) ==
    [row |-> cell[1], col |-> cell[2], value |-> sol[cell[1]][cell[2]]]

\* getHint from the test of emptyCells.length on
PickHint(emptyCells, sol, u) ==
    IF Len(emptyCells) = 0
    THEN Null
    ELSE HintAt(emptyCells[FloorRandom(u, Len(emptyCells)) + 1], sol)

\* getHint drawing among all the cells instead of the empty ones
getHint_AnyCell(cur, sol, u) ==
    PickHint(Positions(GridLength(cur)), sol, u)

\* getHint(currentGrid, solution) for the random draw u / RandRes
getHint(cur, sol, u) == PickHint(EmptyCells(cur), sol, u)

----------------------------------------------------------------------------
(* Grids as objects.  A JavaScript grid is an object: two references may    *)
(* name the same one, and a write through one is seen through the other.    *)
(* The heap maps the identities of the objects alive to their contents; an  *)
(* object no reference names any more is collected.                         *)

\* Array(n).fill().map(...) and grid.map(row => [...row]): a new object
Alloc(h, g) ==
    LET id == Least({i \in 1 .. Cardinality(DOMAIN h) + 1 : i \notin DOMAIN h})
    IN  [ref |-> id, heap |-> (id :> g) @@ h]

\* assignments to the cells of the object ref: it holds g afterwards
Write(h, ref, g) == [h EXCEPT ![ref] = g]

\* the objects still named by one of the references in roots
Collect(h, roots) == [id \in DOMAIN h \cap roots |-> h[id]]

\* the generator over the heap: o.grid and o.solution are the objects that
\* this.grid and this.solution refer to

\* setSize: this.grid and this.solution are assigned new grids of zeros
setSizeOn(o, n) ==
    LET a == Alloc(o.heap, ZeroGrid(n))
        b == Alloc(a.heap, ZeroGrid(n))
    IN  [heap |-> b.heap, grid |-> a.ref, solution |-> b.ref]

\* this.solution filled cell by cell from this.grid, in the object it has
CopySolution_InPlace(o) ==
    [o EXCEPT !.heap = Write(o.heap, o.solution, o.heap[o.grid])]

\* this.solution = this.grid.map(row => [...row])
CopySolution(o) ==
    LET s == Alloc(o.heap, o.heap[o.grid])
    IN  [o EXCEPT !.heap = s.heap, !.solution = s.ref]

\* generateComplete: every attempt assigns this.grid a new grid of zeros;
\* fillGridRecursive, and createFallbackGrid after the last attempt, write
\* the cells of that object, which holds full on return
generateCompleteOn(o, n, full) ==
    LET a == Alloc(o.heap, ZeroGrid(n))
    IN  CopySolution([o EXCEPT !.heap = Write(a.heap, a.ref, full),
                               !.grid = a.ref])

\* generatePuzzle: setSize, generateComplete, then a copy of this.grid in
\* which the removed cells are set to 0; the object returned as solution is
\* the one this.solution refers to
generatePuzzleOn(o, n, gp) ==
    LET c == generateCompleteOn(setSizeOn(o, n), n, gp.grid)
        p == Alloc(c.heap, c.heap[c.grid])
    IN  [heap |-> Write(p.heap, p.ref, gp.puzzle), grid |-> c.grid,
         solution |-> c.solution,
         returned |-> [puzzle |-> p.ref, solution |-> c.solution]]

\* solvePuzzle(grid) on the object ref: the solver writes its cells
solvePuzzleOn(h, ref, r) == Write(h, ref, r.grid)

\* no {puzzle, solution} is kept
NoHeld ==
    [puzzle |-> 0, solution |-> 0, internal |-> 0, puzzleWas |-> << >>,
     solutionWas |-> << >>]

\* the {puzzle, solution} returned by generatePuzzle, kept by the caller
\* with what the two objects held at the return, and the object
\* this.solution referred to at the return
Keep(o) ==
    [puzzle |-> o.returned.puzzle, solution |-> o.returned.solution,
     internal |-> o.solution, puzzleWas |-> o.heap[o.returned.puzzle],
     solutionWas |-> o.heap[o.returned.solution]]

\* the objects named by the generator and by the caller
Roots(o, h) == {o.grid, o.solution, h.puzzle, h.solution}

\* no recursion is in progress
NoRun == [grid |-> << >>, stack |-> << >>, ret |-> "none", visits |-> 0,
          rng |-> 0]

\* generateComplete is not in progress
NoGen ==
    [phase |-> "none", env |-> [seed |-> 0, loaded |-> 0, ms |-> 5001],
     attempts |-> 0, started |-> 0, ms |-> 0, risen |-> FALSE,
     fallback |-> FALSE, timedOutAt |-> <<-1, -1>>, placedAfter |-> FALSE]

----------------------------------------------------------------------------
(* Live conflict checking of SudokuGame *)

\* the cells scanned by the box check of hasConflict for the cell (row, col)
ConflictWindow(gridSize, row, col) ==
    IF gridSize = 6
    THEN LET boxRow == row \div 2
             boxCol == col \div 3
             startRow == boxRow * 2
             startCol == boxCol * 3
         IN  {<<r, c>> : r \in startRow .. startRow + 1,
                         c \in startCol .. startCol + 2}
    ELSE LET boxSize_ == Sqrt(gridSize)
             startRow == (row \div boxSize_) * boxSize_
             startCol == (col \div boxSize_) * boxSize_
         IN  {<<r, c>> : r \in startRow .. startRow + boxSize_ - 1,
                         c \in startCol .. startCol + boxSize_ - 1}

\* hasConflict with the row check not passing over the cell itself
hasConflict_CountsItself(cur, gridSize, row, col, value) ==
    \/ \E c \in Idx(gridSize) : cur[row][c] = value
    \/ \E r \in Idx(gridSize) : r # row /\ cur[r][col] = value
    \/ \E cell \in ConflictWindow(gridSize, row, col) :
           /\ cell[1] # row \/ cell[2] # col
           /\ cur[cell[1]][cell[2]] = value

\* hasConflict(row, col, value) on cur = this.currentGrid and this.gridSize
hasConflict(cur, gridSize, row, col, value) ==
    \/ \E c \in Idx(gridSize) : c # col /\ cur[row][c] = value
    \/ \E r \in Idx(gridSize) : r # row /\ cur[r][col] = value
    \/ \E cell \in ConflictWindow(gridSize, row, col) :
           /\ cell[1] # row \/ cell[2] # col
           /\ cur[cell[1]][cell[2]] = value

----------------------------------------------------------------------------
(* The game timer of SudokuGame.  Times are in ticks of the clock; 0 is the *)
(* null startTime, and Date.now() is PageLoadTime when the page is loaded.  *)

PageLoadTime == 10

\* startTimer() at the time t: this.startTime afterwards
startTimer(st, t) == IF st = 0 THEN t ELSE st

\* isPuzzleComplete()
isPuzzleComplete(cur) == EmptyCells(cur) = <<>>

----------------------------------------------------------------------------
(* The page of SudokuGame and its storage.  A tick of the clock is one      *)
(* second, the period of the timer interval.                                *)

\* the cells of g that are not empty
Filled(g, n) == {cell \in Idx(n) \X Idx(n) : g[cell[1]][cell[2]] # 0}

\* saveGameState(): the game is written to storage, unless currentPuzzle is
\* not set (has: newGame or loadGameState has set it)
saveGameState(saved, has) == has \/ saved

\* updateTimer(): the game is saved when a ten-second mark of the elapsed
\* time was passed within the last second
updateTimer(saved, has, st, t) ==
    IF st # 0 /\ (t - st) \div 10 # ((t - st) - 1) \div 10
    THEN saveGameState(saved, has)
    ELSE saved

\* createGrid(): every cell input shows the value of currentGrid, or nothing
createGrid(cur) == cur

\* updateGridDisplay(): the cells that are not given show currentGrid
updateGridDisplay(shown, cur, given, n) ==
    [row \in Idx(n) |-> [col \in Idx(n) |->
        IF <<row, col>> \in given THEN shown[row][col] ELSE cur[row][col]]]

\* completePuzzle(): stopTimer, saveScore, clearGameState, showWinModal
completePuzzle ==
    /\ scores < MaxScores
    /\ timerInterval' = FALSE
    /\ scores' = scores + 1
    /\ savedGame' = FALSE
    /\ winModal' = TRUE
    /\ completions' = completions + 1

----------------------------------------------------------------------------
(* The engine driven by a game: construction, one generatePuzzle call, then *)
(* the Solve button and the Hint button on the caller's grid.               *)

Difficulties == 0 .. 5
LoadedAttempts == {0, 1, maxAttempts - 1, maxAttempts}
LoadedMs == {251, 5001}

\* environments of one generatePuzzle call: the PRNG seed and the clock
Envs ==
    {e \in [seed : 0 .. MaxSeed, loaded : LoadedAttempts, ms : LoadedMs] :
        e.loaded = 0 => e.ms = 5001}

\* the calls made: every difficulty on a machine that is not under load,
\* the default difficulty of SudokuGame (3) in every environment
Requests ==
    {q \in [difficulty : Difficulties, size : Sizes, env : Envs] :
        q.difficulty = 3 \/ q.env.loaded = 0}

\* constructor of SudokuGenerator, and of a SudokuGame with no saved game
Init ==
    /\ size = 9
    /\ boxSize = 3
    /\ grid = ZeroGrid(9)
    /\ solution = ZeroGrid(9)
    /\ pc = "constructed"
    /\ request = [difficulty |-> 3, size |-> 9,
                   env |-> [seed |-> 0, loaded |-> 0, ms |-> 5001]]
    /\ result = "none"
    /\ genTrace = "none"
    /\ currentGrid = "none"
    /\ passedGrid = "none"
    /\ solveGrid = "none"
    /\ solved = FALSE
    /\ hint = Null
    /\ hintsUsed = 0
    /\ heap = (1 :> ZeroGrid(9)) @@ (2 :> ZeroGrid(9))
    /\ generator = [grid |-> 1, solution |-> 2]
    /\ held = NoHeld
    /\ run = NoRun
    /\ gen = NoGen
    /\ startTime = 0
    /\ timerInterval = FALSE
    /\ now = PageLoadTime
    /\ cells = "none"
    /\ givenCells = {}
    /\ scores = 0
    /\ savedGame = FALSE
    /\ winModal = FALSE
    /\ completions = 0
    /\ pendingSaves = 0

\* the setup modal: the player selects a difficulty and a grid size; the
\* environment the game will be generated in is fixed with them
SelectSettings(q) ==
    /\ pc = "constructed"
    /\ request' = q
    /\ pc' = "setup"
    /\ UNCHANGED <<size, boxSize, grid, solution, result, genTrace,
                   currentGrid, passedGrid, solveGrid, solved, hint,
                   hintsUsed>>
    /\ UNCHANGED <<heapVars, stepVars, timerVars,
                   pageVars>>

\* the start-game click and SudokuGame.newGame:
\* generatePuzzle(difficulty, gridSize) and the caller's copy of the puzzle
GeneratePuzzle ==
    /\ pc = "setup"
    /\ \E gp \in {generatePuzzle(request.difficulty, request.size,
                                 request.env)} :
           /\ size' = gp.size
           /\ boxSize' = gp.boxSize
           /\ grid' = gp.grid
           /\ solution' = gp.solution
           /\ result' = [puzzle |-> gp.puzzle, solution |-> gp.solution]
           /\ genTrace' = [attempts |-> gp.attempts, fallback |-> gp.fallback,
                           shuffled |-> gp.shuffled]
           /\ currentGrid' = gp.puzzle
           /\ pc' = IF gp.returned THEN "generated" ELSE "unfinished"
    /\ hintsUsed' = 0
    /\ UNCHANGED <<request, passedGrid, solveGrid, solved, hint>>
    /\ givenCells' = Filled(currentGrid', request.size)
    /\ cells' = createGrid(currentGrid')
    /\ startTime' = startTimer(startTime, now)
    /\ timerInterval' = TRUE
    /\ savedGame' = updateTimer(FALSE, TRUE, startTime', now)
    /\ pendingSaves < MaxPending
    /\ pendingSaves' = pendingSaves + 1
    /\ completions' = 0
    /\ UNCHANGED <<heapVars, stepVars, now, scores, winModal>>

\* SudokuGame.solvePuzzle: solvePuzzle on a copy of currentGrid; when the
\* solver returns true the copy replaces currentGrid, the page shows it and
\* completePuzzle runs
SolvePuzzle ==
    /\ pc \in {"generated", "restored", "input", "checked"}
    /\ \E r \in {Solve(currentGrid)} :
           /\ passedGrid' = currentGrid
           /\ solveGrid' = r.grid
           /\ solved' = r.ok
           /\ currentGrid' = IF r.ok THEN r.grid ELSE currentGrid
           /\ pc' = IF r.returned THEN "solved" ELSE "unfinished"
           /\ IF r.ok
              THEN /\ cells' = updateGridDisplay(cells, currentGrid',
                                                 givenCells, request.size)
                   /\ completePuzzle
              ELSE UNCHANGED <<cells, timerInterval, scores, savedGame,
                               winModal, completions>>
    /\ UNCHANGED <<size, boxSize, grid, solution, request, result, genTrace,
                   hint, hintsUsed>>
    /\ UNCHANGED <<heapVars, stepVars, startTime, now, givenCells,
                   pendingSaves>>

\* SudokuGame.giveHint: getHint(currentGrid, currentSolution); the caller
\* applies a non-null hint to currentGrid and to the cell shown, saves the
\* game, and completePuzzle runs if no cell is empty then
GiveHint(u) ==
    /\ pc \in {"generated", "solved", "input", "checked"}
    /\ \E h \in {getHint(currentGrid, result.solution, u)} :
           /\ hint' = h
           /\ passedGrid' = currentGrid
           /\ IF h # Null
              THEN /\ hintsUsed < MaxHints
                   /\ hintsUsed' = hintsUsed + 1
                   /\ currentGrid' =
                        [currentGrid EXCEPT ![h.row][h.col] = h.value]
                   /\ cells' = [cells EXCEPT ![h.row][h.col] = h.value]
                   /\ IF isPuzzleComplete(currentGrid')
                      THEN completePuzzle
                      ELSE /\ savedGame' = saveGameState(savedGame, TRUE)
                           /\ UNCHANGED <<timerInterval, scores, winModal,
                                          completions>>
              ELSE UNCHANGED <<hintsUsed, currentGrid, cells, timerInterval,
                               scores, savedGame, winModal, completions>>
    /\ pc' = "hinted"
    /\ UNCHANGED <<size, boxSize, grid, solution, request, result, genTrace,
                   solveGrid, solved>>
    /\ UNCHANGED <<heapVars, stepVars, startTime, now, givenCells,
                   pendingSaves>>

Next ==
    \/ \E q \in Requests : SelectSettings(q)
    \/ GeneratePuzzle
    \/ SolvePuzzle
    \/ \E u \in Idx(RandRes) : GiveHint(u)

Spec == Init /\ [][Next]_vars

----------------------------------------------------------------------------
(* The validator on the generator's grid: setSize, then placements that     *)
(* pass isValid, as fillGridRecursive makes them.                           *)

\* setSize(n)
SetSize(n) ==
    /\ pc = "constructed"
    /\ size' = n
    /\ boxSize' = BoxSizeOf(n)
    /\ grid' = ZeroGrid(n)
    /\ solution' = ZeroGrid(n)
    /\ pc' = "sized"
    /\ UNCHANGED <<request, result, genTrace, currentGrid, passedGrid,
                   solveGrid, solved, hint, hintsUsed>>
    /\ UNCHANGED <<heapVars, stepVars, timerVars,
                   pageVars>>

\* the values placed: the validator compares values for equality only, so
\* one value stands for all
PlacedNums(n) == {4}

\* if (this.isValid(row, col, num)) this.grid[row][col] = num, on an empty
\* cell; the grids looked at hold one value, in at most MaxPlaced cells
Place(row, col, num) ==
    /\ pc = "sized"
    /\ Cardinality(Filled(grid, size)) < MaxPlaced
    /\ grid[row][col] = 0
    /\ isValid(grid, size, boxSize, row, col, num)
    /\ grid' = [grid EXCEPT ![row][col] = num]
    /\ UNCHANGED <<size, boxSize, solution, pc, request, result, genTrace,
                   currentGrid, passedGrid, solveGrid, solved, hint,
                   hintsUsed>>
    /\ UNCHANGED <<heapVars, stepVars, timerVars,
                   pageVars>>

ValNext ==
    \/ \E n \in Sizes : SetSize(n)
    \/ \E row \in Idx(size), col \in Idx(size), num \in PlacedNums(size) :
          Place(row, col, num)

ValSpec == Init /\ [][ValNext]_vars

----------------------------------------------------------------------------
(* The solver on a game in progress: a restored grid, then the Solve button *)

\* box shape of a grid size: rows and columns of one box
BoxRows(n) == IF n = 9 THEN 3 ELSE 2
BoxCols(n) == IF n = 4 THEN 2 ELSE 3

\* a complete grid with each value once in every row, column and box
BaseGrid(n) ==
    Table([row \in Idx(n) |-> Table([col \in Idx(n) |->
        (((row % BoxRows(n)) * BoxCols(n) + (row \div BoxRows(n)) + col) % n)
            + 1])])

\* g with k of its cells emptied, spread over the grid
Blanked(g, n, k) ==
    LET blank == {<<((i * 7) % (n * n)) \div n, ((i * 7) % (n * n)) % n>> :
                     i \in 1 .. k}
    IN  Table([row \in Idx(n) |-> Table([col \in Idx(n) |->
            IF <<row, col>> \in blank THEN 0 ELSE g[row][col]])])

\* the grids of games in progress: a complete grid, or one with MaxBlanks
\* empty cells, or an empty 4x4 grid, after one entry of the player (any
\* value or empty, in any cell)
SavedGrids ==
    {[Blanked(BaseGrid(n), n, k) EXCEPT ![cell[1]][cell[2]] = v] :
        <<n, k, cell, v>> \in
            {q \in Sizes \X {0, MaxBlanks, 16} \X (Idx(9) \X Idx(9))
                    \X (0 .. 9) :
                /\ q[3][1] < q[1] /\ q[3][2] < q[1] /\ q[4] <= q[1]
                /\ q[2] = 16 => q[1] = 4}}

\* a grid of dimension m passed in by a caller, with empty cells
PassedIn(m) == Blanked(BaseGrid(m), m, MaxBlanks)

\* the given cells of a saved game: the cells that hold the value of the
\* complete grid the game was made from
SavedGiven(g) ==
    {cell \in Filled(g, GridLength(g)) :
        g[cell[1]][cell[2]] = BaseGrid(GridLength(g))[cell[1]][cell[2]]}

\* loadGameState: the saved game found in storage is restored: currentGrid,
\* givenCells and gridSize; the timer is started so that elapsed ticks have
\* passed, and the page shows the grid
LoadGameState(g, elapsed) ==
    /\ pc = "constructed"
    /\ currentGrid' = g
    /\ givenCells' = SavedGiven(g)
    /\ request' = [request EXCEPT !.size = GridLength(g)]
    /\ startTime' = startTimer(now - elapsed, now)
    /\ timerInterval' = TRUE
    /\ cells' = createGrid(g)
    /\ savedGame' = updateTimer(TRUE, TRUE, startTime', now)
    /\ pc' = "restored"
    /\ UNCHANGED <<size, boxSize, grid, solution, result, genTrace,
                   passedGrid, solveGrid, solved, hint, hintsUsed>>
    /\ UNCHANGED <<heapVars, stepVars, now, scores, winModal, completions,
                   pendingSaves>>

SolveNext ==
    \/ \E g \in SavedGrids : LoadGameState(g, 0)
    \/ SolvePuzzle

SolveSpec == Init /\ [][SolveNext]_vars

----------------------------------------------------------------------------
(* The engine called by a client that keeps what generatePuzzle returned:   *)
(* any sequence of generatePuzzle, generateComplete, getHint and            *)
(* solvePuzzle calls, with the grids as objects.                            *)

\* the calls made: the default difficulty, on a machine that is idle or
\* under load for the whole call
EngineRequests ==
    {q \in Requests :
        q.difficulty = 3 /\ q.env.ms = 5001
            /\ q.env.loaded \in {0, maxAttempts}}

\* the game played on the page: an easy 4x4 puzzle on an idle machine
GameRequests ==
    {[difficulty |-> 1, size |-> 4,
      env |-> [seed |-> 0, loaded |-> 0, ms |-> 5001]]}

\* the generator object over the heap
This == [heap |-> heap, grid |-> generator.grid,
         solution |-> generator.solution]

\* generatePuzzle and generateComplete for each of the calls made
GeneratedFor ==
    Table([q \in EngineRequests \cup GameRequests |->
        generatePuzzle(q.difficulty, q.size, q.env)])
CompletedFor ==
    Table([q \in EngineRequests |->
        generateComplete(q.size, BoxSizeOf(q.size), q.env, q.env.seed)])

\* generatePuzzle(q.difficulty, q.size); with keep the caller keeps the
\* returned {puzzle, solution}
CallGeneratePuzzle(q, keep) ==
    /\ pc \in {"constructed", "engine"}
    /\ keep => held = NoHeld
    /\ \E gp \in {GeneratedFor[q]} :
       \E o \in {generatePuzzleOn(This, q.size, gp)} :
       \E h \in {IF keep THEN Keep(o) ELSE held} :
           /\ size' = gp.size
           /\ boxSize' = gp.boxSize
           /\ grid' = gp.grid
           /\ solution' = gp.solution
           /\ generator' = [grid |-> o.grid, solution |-> o.solution]
           /\ held' = h
           /\ heap' = Collect(o.heap, Roots(o, h))
           /\ pc' = IF gp.returned THEN "engine" ELSE "unfinished"
    /\ UNCHANGED <<request, result, genTrace, currentGrid, passedGrid,
                   solveGrid, solved, hint, hintsUsed, stepVars, timerVars,
                   pageVars>>

\* generateComplete() called directly, at the size last set
CallGenerateComplete(q) ==
    /\ pc \in {"constructed", "engine"}
    /\ q.size = size
    /\ \E gc \in {CompletedFor[q]} :
       \E o \in {generateCompleteOn(This, size, gc.grid)} :
           /\ grid' = gc.grid
           /\ solution' = gc.solution
           /\ generator' = [grid |-> o.grid, solution |-> o.solution]
           /\ heap' = Collect(o.heap, Roots(o, held))
           /\ pc' = IF gc.returned THEN "engine" ELSE "unfinished"
    /\ UNCHANGED <<size, boxSize, request, result, genTrace, currentGrid,
                   passedGrid, solveGrid, solved, hint, hintsUsed, held,
                   stepVars, timerVars,
                   pageVars>>

\* getHint(grid, solution) on the objects the caller keeps
CallGetHint(u) ==
    /\ pc = "engine"
    /\ held # NoHeld
    /\ hint' = getHint(heap[held.puzzle], heap[held.solution], u)
    /\ UNCHANGED <<size, boxSize, grid, solution, pc, request, result,
                   genTrace, currentGrid, passedGrid, solveGrid, solved,
                   hintsUsed, heapVars, stepVars, timerVars,
                   pageVars>>

\* solvePuzzle(gridCopy) on a copy of the puzzle the caller keeps; the copy
\* is dropped after the call
CallSolvePuzzle ==
    /\ pc = "engine"
    /\ held # NoHeld
    /\ \E c \in {Alloc(heap, heap[held.puzzle])} :
       \E r \in {Solve(c.heap[c.ref])} :
       \E h \in {solvePuzzleOn(c.heap, c.ref, r)} :
           /\ passedGrid' = c.heap[c.ref]
           /\ solveGrid' = h[c.ref]
           /\ solved' = r.ok
           /\ heap' = Collect(h, Roots(generator, held))
           /\ pc' = IF r.returned THEN "engine" ELSE "unfinished"
    /\ UNCHANGED <<size, boxSize, grid, solution, request, result, genTrace,
                   currentGrid, hint, hintsUsed, generator, held, stepVars,
                   timerVars,
                   pageVars>>

EngineNext ==
    \/ \E q \in EngineRequests, keep \in BOOLEAN : CallGeneratePuzzle(q, keep)
    \/ \E q \in EngineRequests : CallGenerateComplete(q)
    \/ \E u \in {0, RandRes - 1} : CallGetHint(u)
    \/ CallSolvePuzzle

EngineSpec == Init /\ [][EngineNext]_vars

----------------------------------------------------------------------------
(* generateComplete followed step by step: the while loop, and in every     *)
(* attempt the activations of fillGridRecursive one step at a time.  The    *)
(* clock runs at a rate per cell visit that never falls within an attempt:  *)
(* the first env.loaded attempts run under load, and load may set in once   *)
(* more while a later attempt is at the end of a row.                       *)

StepEnvs == {e \in Envs : e.ms = 5001}

\* fillGrid(): startTime = Date.now(), then fillGridRecursive(0, 0, ...)
FillStart(g, rng) ==
    [grid |-> g, visits |-> 0, rng |-> rng, stack |-> <<Frame(0, 0)>>,
     ret |-> "call"]

\* load may set in when the activation f is entered
MayRise(f, n) == f.row = n \/ f.col = n

\* a value was written to a cell between the grids before and after
Placed(before, after, n) ==
    \E cell \in Idx(n) \X Idx(n) :
        /\ after[cell[1]][cell[2]] # 0
        /\ after[cell[1]][cell[2]] # before[cell[1]][cell[2]]

\* setSize(n), and generateComplete() is entered: attempts = 0
StartGenerate(n, env) ==
    /\ pc = "constructed"
    /\ size' = n
    /\ boxSize' = BoxSizeOf(n)
    /\ grid' = ZeroGrid(n)
    /\ solution' = ZeroGrid(n)
    /\ gen' = [NoGen EXCEPT !.phase = "loop", !.env = env, !.ms = IdleMs]
    /\ run' = [NoRun EXCEPT !.rng = env.seed]
    /\ pc' = "generating"
    /\ UNCHANGED <<request, result, genTrace, currentGrid, passedGrid,
                   solveGrid, solved, hint, hintsUsed, heapVars, timerVars,
                   pageVars>>

\* while (attempts < maxAttempts): this.grid = a grid of zeros, and
\* fillGrid() is entered
StartAttempt ==
    /\ gen.phase = "loop"
    /\ gen.attempts < maxAttempts
    /\ grid' = ZeroGrid(size)
    /\ run' = FillStart(ZeroGrid(size), run.rng)
    /\ gen' = [gen EXCEPT !.phase = "filling", !.started = @ + 1,
                          !.ms = IF gen.risen THEN gen.env.ms
                                 ELSE MsOf(gen.env, gen.attempts),
                          !.timedOutAt = <<-1, -1>>, !.placedAfter = FALSE]
    /\ UNCHANGED <<size, boxSize, solution, pc, request, result, genTrace,
                   currentGrid, passedGrid, solveGrid, solved, hint,
                   hintsUsed, heapVars, timerVars,
                   pageVars>>

\* one step of fillGridRecursive; with rise, load sets in before it
FillStep(rise) ==
    /\ gen.phase = "filling"
    /\ ~Returned(run)
    /\ rise => /\ run.ret = "call"
               /\ MayRise(Top(run.stack), size)
               /\ gen.ms < gen.env.ms
    /\ \E ms \in {IF rise THEN gen.env.ms ELSE gen.ms} :
           /\ run' = fillGridRecursive(run, size, boxSize, ms)
           /\ grid' = run'.grid
           /\ gen' = [gen EXCEPT
                  !.ms = ms,
                  !.risen = @ \/ rise,
                  !.timedOutAt =
                      IF /\ @ = <<-1, -1>>
                         /\ run.ret = "call"
                         /\ Elapsed(run.visits, ms) > timeout
                      THEN <<Top(run.stack).row, Top(run.stack).col>>
                      ELSE @,
                  !.placedAfter =
                      @ \/ (gen.timedOutAt # <<-1, -1>>
                               /\ Placed(run.grid, run'.grid, size))]
    /\ UNCHANGED <<size, boxSize, solution, pc, request, result, genTrace,
                   currentGrid, passedGrid, solveGrid, solved, hint,
                   hintsUsed, heapVars, timerVars,
                   pageVars>>

\* the successful attempt returning without the copy to this.solution
AttemptSucceeded_NoCopy ==
    /\ gen.phase = "filling"
    /\ Returned(run)
    /\ run.ret = "true"
    /\ gen' = [gen EXCEPT !.phase = "returned"]
    /\ pc' = "completed"
    /\ UNCHANGED <<size, boxSize, grid, solution, request, result, genTrace,
                   currentGrid, passedGrid, solveGrid, solved, hint,
                   hintsUsed, heapVars, run, timerVars,
                   pageVars>>

\* if (this.fillGrid()) { this.solution = copy of this.grid; return }
AttemptSucceeded ==
    /\ gen.phase = "filling"
    /\ Returned(run)
    /\ run.ret = "true"
    /\ solution' = grid
    /\ gen' = [gen EXCEPT !.phase = "returned"]
    /\ pc' = "completed"
    /\ UNCHANGED <<size, boxSize, grid, request, result, genTrace,
                   currentGrid, passedGrid, solveGrid, solved, hint,
                   hintsUsed, heapVars, run, timerVars,
                   pageVars>>

\* fillGrid() returned false: attempts++
AttemptFailed ==
    /\ gen.phase = "filling"
    /\ Returned(run)
    /\ run.ret = "false"
    /\ gen' = [gen EXCEPT !.phase = "loop", !.attempts = @ + 1]
    /\ UNCHANGED <<engineVars, heapVars, run, timerVars,
                   pageVars>>

\* the fallback taken when one attempt is still left
Fallback_Early ==
    /\ gen.phase = "loop"
    /\ ~(gen.attempts < maxAttempts - 1)
    /\ grid' = createFallbackGrid(size, boxSize)
    /\ solution' = createFallbackGrid(size, boxSize)
    /\ gen' = [gen EXCEPT !.phase = "returned", !.fallback = TRUE]
    /\ pc' = "completed"
    /\ UNCHANGED <<size, boxSize, request, result, genTrace, currentGrid,
                   passedGrid, solveGrid, solved, hint, hintsUsed, heapVars,
                   run, timerVars,
                   pageVars>>

\* the loop has ended: createFallbackGrid(), this.solution = copy, return
Fallback ==
    /\ gen.phase = "loop"
    /\ ~(gen.attempts < maxAttempts)
    /\ grid' = createFallbackGrid(size, boxSize)
    /\ solution' = createFallbackGrid(size, boxSize)
    /\ gen' = [gen EXCEPT !.phase = "returned", !.fallback = TRUE]
    /\ pc' = "completed"
    /\ UNCHANGED <<size, boxSize, request, result, genTrace, currentGrid,
                   passedGrid, solveGrid, solved, hint, hintsUsed, heapVars,
                   run, timerVars,
                   pageVars>>

\* the steps of a generateComplete call that has been entered
FillRun ==
    \/ StartAttempt
    \/ \E rise \in BOOLEAN : FillStep(rise)
    \/ AttemptSucceeded
    \/ AttemptFailed
    \/ Fallback

FillNext ==
    \/ \E n \in Sizes, env \in StepEnvs : StartGenerate(n, env)
    \/ FillRun

FillSpec == Init /\ [][FillNext]_vars

\* weak fairness of the steps of fillGridRecursive, with the condition
\* under which a step can be taken written out: the attempt is under way
\* and its outermost activation has not returned
FillStepFair ==
    \/ []<>(~(gen.phase = "filling" /\ ~Returned(run)))
    \/ []<><<\E rise \in BOOLEAN : FillStep(rise)>>_vars

\* the call runs on one thread and nothing suspends it: a step that can be
\* taken is taken
FillLive ==
    /\ FillSpec
    /\ WF_vars(StartAttempt)
    /\ FillStepFair
    /\ WF_vars(AttemptSucceeded)
    /\ WF_vars(AttemptFailed)
    /\ WF_vars(Fallback)

----------------------------------------------------------------------------
(* The solver followed step by step on a restored grid: the activations of  *)
(* solvePuzzle one step at a time, on the copy SudokuGame.solvePuzzle made. *)

\* const gridCopy = copy of currentGrid; solvePuzzle(gridCopy) is entered
BeginSolve ==
    /\ pc = "restored"
    /\ passedGrid' = currentGrid
    /\ run' = [NoRun EXCEPT !.grid = currentGrid, !.stack = <<SolveFrame>>,
                            !.ret = "call"]
    /\ pc' = "solving"
    /\ UNCHANGED <<size, boxSize, grid, solution, request, result, genTrace,
                   currentGrid, solveGrid, solved, hint, hintsUsed, heapVars,
                   gen, timerVars,
                   pageVars>>

\* one step of solvePuzzle
SolveStep ==
    /\ pc = "solving"
    /\ ~Returned(run)
    /\ run' = solvePuzzle(run)
    /\ UNCHANGED <<engineVars, heapVars, gen, timerVars,
                   pageVars>>

\* solvePuzzle has returned: if (true) this.currentGrid = gridCopy
EndSolve ==
    /\ pc = "solving"
    /\ Returned(run)
    /\ solveGrid' = run.grid
    /\ solved' = (run.ret = "true")
    /\ currentGrid' = IF run.ret = "true" THEN run.grid ELSE currentGrid
    /\ pc' = "solved"
    /\ UNCHANGED <<size, boxSize, grid, solution, request, result, genTrace,
                   passedGrid, hint, hintsUsed, heapVars, stepVars,
                   timerVars,
                   pageVars>>

SolveStepNext ==
    \/ \E g \in SavedGrids : LoadGameState(g, 0)
    \/ BeginSolve
    \/ SolveStep
    \/ EndSolve

SolveStepSpec == Init /\ [][SolveStepNext]_vars

----------------------------------------------------------------------------
(* The timer over a page session: a game restored or not when the page is   *)
(* loaded, then new games, the Solve button, and time passing.              *)

\* the games started: the default difficulty on an idle machine
TimerRequests == {q \in EngineRequests : q.env.loaded = 0 /\ q.env.seed = 0}

\* the start-game click and SudokuGame.newGame at the time now:
\* generatePuzzle, the caller's copy of the puzzle, startTimer()
NewGame(q) ==
    /\ pc \in {"constructed", "restored", "generated", "solved", "hinted",
              "input", "checked"}
    /\ \E gp \in {GeneratedFor[q]} :
           /\ size' = gp.size
           /\ boxSize' = gp.boxSize
           /\ grid' = gp.grid
           /\ solution' = gp.solution
           /\ result' = [puzzle |-> gp.puzzle, solution |-> gp.solution]
           /\ genTrace' = [attempts |-> gp.attempts, fallback |-> gp.fallback,
                           shuffled |-> gp.shuffled]
           /\ currentGrid' = gp.puzzle
           /\ pc' = IF gp.returned THEN "generated" ELSE "unfinished"
    /\ request' = [difficulty |-> q.difficulty, size |-> q.size,
                   env |-> q.env, at |-> now]
    /\ hintsUsed' = 0
    /\ givenCells' = Filled(currentGrid', q.size)
    /\ cells' = createGrid(currentGrid')
    /\ startTime' = startTimer(startTime, now)
    /\ timerInterval' = TRUE
    /\ savedGame' = updateTimer(FALSE, TRUE, startTime', now)
    /\ pendingSaves < MaxPending
    /\ pendingSaves' = pendingSaves + 1
    /\ completions' = 0
    /\ UNCHANGED <<passedGrid, solveGrid, solved, hint, heapVars, stepVars,
                   now, scores, winModal>>

\* a second passes, and the timer interval calls updateTimer when it is set
\* (startTimer sets it after currentPuzzle was set)
Tick ==
    /\ now < PageLoadTime + MaxTicks
    /\ now' = now + 1
    /\ savedGame' = IF timerInterval
                    THEN updateTimer(savedGame, TRUE, startTime, now')
                    ELSE savedGame
    /\ UNCHANGED <<engineVars, heapVars, stepVars, startTime, timerInterval,
                   cells, givenCells, scores, winModal, completions,
                   pendingSaves>>

\* the callback newGame set after it had set currentPuzzle runs:
\* saveGameState()
SaveTimeout ==
    /\ pendingSaves > 0
    /\ pendingSaves' = pendingSaves - 1
    /\ savedGame' = saveGameState(savedGame, TRUE)
    /\ UNCHANGED <<engineVars, heapVars, stepVars, timerVars, cells,
                   givenCells, scores, winModal, completions>>

TimerNext ==
    \/ \E m \in Sizes, elapsed \in 0 .. MaxTicks :
          LoadGameState(PassedIn(m), elapsed)
    \/ \E q \in TimerRequests : NewGame(q)
    \/ SolvePuzzle
    \/ Tick
    \/ SaveTimeout

TimerSpec == Init /\ [][TimerNext]_vars

----------------------------------------------------------------------------
(* The game played on the page: new games, entries typed into the cells,    *)
(* the Hint, Check and Solve buttons, the win modal and the save callback.  *)

\* the text of a cell after an edit: -1 is the empty text, the others are
\* the digit typed, 0..MaxDigit
Typed == -1 .. MaxDigit

\* the cells the player types into: the first cells, in row-major order,
\* that are not given
TypedCells(given, n) ==
    LET free == (Idx(n) \X Idx(n)) \ given
        before(cell) == {other \in free :
                            other[1] * n + other[2] < cell[1] * n + cell[2]}
    IN  {cell \in free : Cardinality(before(cell)) < MaxTypedCells}

\* new RegExp(`^[1-${this.gridSize}]$`).test(value)
regexTest(typed, n) == typed \in 1 .. n

\* the input handler of a cell that is not read-only: a text that is not
\* empty and not a digit 1..gridSize is cleared and nothing else is done;
\* otherwise currentGrid takes the value, the game is saved, and
\* completePuzzle runs if no cell is empty
CellInput(row, col) ==
    /\ pc \in {"generated", "restored", "solved", "hinted", "input",
              "checked"}
    /\ <<row, col>> \in TypedCells(givenCells, request.size)
    /\ \E typed \in Typed :
          IF typed # -1 /\ ~regexTest(typed, request.size)
          THEN /\ cells' = [cells EXCEPT ![row][col] = 0]
               /\ UNCHANGED <<currentGrid, timerInterval, scores, savedGame,
                              winModal, completions>>
          ELSE /\ cells' = [cells EXCEPT ![row][col] =
                                IF typed = -1 THEN 0 ELSE typed]
               /\ currentGrid' = [currentGrid EXCEPT ![row][col] =
                                      IF typed = -1 THEN 0 ELSE typed]
               /\ IF isPuzzleComplete(currentGrid')
                  THEN completePuzzle
                  ELSE /\ savedGame' = saveGameState(savedGame, TRUE)
                       /\ UNCHANGED <<timerInterval, scores, winModal,
                                      completions>>
    /\ pc' = "input"
    /\ UNCHANGED <<size, boxSize, grid, solution, request, result, genTrace,
                   passedGrid, solveGrid, solved, hint, hintsUsed>>
    /\ UNCHANGED <<heapVars, stepVars, startTime, now, givenCells,
                   pendingSaves>>

\* hasErrors of checkSolution: a cell shows a value that hasConflict finds
\* elsewhere in currentGrid
hasErrors(shown, cur, n) ==
    \E row \in Idx(n), col \in Idx(n) :
        /\ shown[row][col] # 0
        /\ hasConflict(cur, n, row, col, shown[row][col])

\* SudokuGame.checkSolution: completePuzzle runs when no cell shown has a
\* conflict and no cell of currentGrid is empty
CheckSolution ==
    /\ pc \in {"generated", "restored", "solved", "hinted", "input",
              "checked"}
    /\ IF ~hasErrors(cells, currentGrid, request.size)
          /\ isPuzzleComplete(currentGrid)
       THEN completePuzzle
       ELSE UNCHANGED <<timerInterval, scores, savedGame, winModal,
                        completions>>
    /\ pc' = "checked"
    /\ UNCHANGED <<size, boxSize, grid, solution, request, result, genTrace,
                   currentGrid, passedGrid, solveGrid, solved, hint,
                   hintsUsed>>
    /\ UNCHANGED <<heapVars, stepVars, startTime, now, cells, givenCells,
                   pendingSaves>>

\* hideWinModal(): a click outside the win modal, or the Escape key
HideWinModal ==
    /\ winModal
    /\ winModal' = FALSE
    /\ UNCHANGED <<engineVars, heapVars, stepVars, timerVars, cells,
                   givenCells, scores, savedGame, completions, pendingSaves>>

GameNext ==
    \/ \E q \in GameRequests : NewGame(q)
    \/ \E row \in Idx(request.size), col \in Idx(request.size) :
          CellInput(row, col)
    \/ \E u \in {0, RandRes - 1} : GiveHint(u)
    \/ CheckSolution
    \/ SolvePuzzle
    \/ HideWinModal
    \/ SaveTimeout

GameSpec == Init /\ [][GameNext]_vars

----------------------------------------------------------------------------
(* Properties *)

Cells(n) == Idx(n) \X Idx(n)

\* g is an n x n grid
IsGrid(g, n) == DOMAIN g = Idx(n) /\ \A r \in Idx(n) : DOMAIN g[r] = Idx(n)

\* the rows, the columns and the boxes of an n x n grid, as sets of cells
RowUnits(n) == {{<<r, c>> : c \in Idx(n)} : r \in Idx(n)}
ColUnits(n) == {{<<r, c>> : r \in Idx(n)} : c \in Idx(n)}
BoxUnits(n) ==
    {{<<br * BoxRows(n) + i, bc * BoxCols(n) + j>> :
          i \in Idx(BoxRows(n)), j \in Idx(BoxCols(n))} :
        br \in Idx(n \div BoxRows(n)), bc \in Idx(n \div BoxCols(n))}

\* the validity invariant: no empty cell, and every row, column and box
\* holds each value 1..n exactly once (a unit has n cells)
ValidSolution(g, n) ==
    /\ IsGrid(g, n)
    /\ \A u \in RowUnits(n) \cup ColUnits(n) \cup BoxUnits(n) :
           {g[cell[1]][cell[2]] : cell \in u} = 1 .. n

GenerateReturned == pc \in {"generated", "solved", "hinted"}

EmptyCellsOf(g, n) == {cell \in Cells(n) : g[cell[1]][cell[2]] = 0}

\* C1: the solution returned by generatePuzzle(difficulty, N) is an N x N
\* grid with no empty cell in which every row, column and box holds each
\* value 1..N exactly once, on the backtracking path and on the fallback path
C1_SolutionValid ==
    GenerateReturned => ValidSolution(result.solution, request.size)

\* C2: the grid built by createFallbackGrid after setSize(N) is the shift
\* pattern ((row * boxSize + floor(row / boxSize) + col) mod N) + 1 and
\* satisfies the validity invariant, for N = 4, 6 and 9
C2_FallbackValid ==
    (GenerateReturned /\ genTrace.fallback) =>
        /\ \A cell \in Cells(size) :
               grid[cell[1]][cell[2]] =
                   ((cell[1] * boxSize + (cell[1] \div boxSize) + cell[2])
                       % size) + 1
        /\ ValidSolution(grid, size)

\* C3: puzzle and solution returned by generatePuzzle(difficulty, N) are
\* both N x N and every cell of the puzzle is 0 or equal to the cell of
\* the solution at the same place
C3_PuzzleMatchesSolution ==
    GenerateReturned =>
        /\ IsGrid(result.puzzle, request.size)
        /\ IsGrid(result.solution, request.size)
        /\ \A cell \in Cells(request.size) :
               \/ result.puzzle[cell[1]][cell[2]] = 0
               \/ result.puzzle[cell[1]][cell[2]] =
                      result.solution[cell[1]][cell[2]]

\* a generated 6 x 6 puzzle from a backtracking attempt, with cells removed
\* and cells kept
C3_Witness ==
    /\ pc = "generated"
    /\ request.size = 6
    /\ ~genTrace.fallback
    /\ \E cell \in Cells(6) : result.puzzle[cell[1]][cell[2]] = 0
    /\ \E cell \in Cells(6) : result.puzzle[cell[1]][cell[2]] # 0

\* the removal fractions in percent: 30, 40, 50, 60, 65 for the levels
\* 1..5, 60 for any other level
FractionPercent(d) ==
    IF d \in 1 .. 5 THEN <<30, 40, 50, 60, 65>>[d] ELSE 60

\* min(floor(N^2 * f(d)), N^2)
ExpectedZeros(n, d) ==
    LET k == (n * n * FractionPercent(d)) \div 100
    IN  IF k < n * n THEN k ELSE n * n

\* C4: the puzzle returned by generatePuzzle(d, N) has exactly
\* min(floor(N^2 * f(d)), N^2) zero cells, and the removed positions (the
\* first of the shuffled positions) are pairwise distinct
C4_RemovalCount ==
    GenerateReturned =>
        LET n == request.size
            k == ExpectedZeros(n, request.difficulty)
        IN  /\ Cardinality(EmptyCellsOf(result.puzzle, n)) = k
            /\ EmptyCellsOf(result.puzzle, n) =
                   {genTrace.shuffled[i] : i \in 1 .. k}
            /\ \A i, j \in 1 .. k :
                   i # j => genTrace.shuffled[i] # genTrace.shuffled[j]

\* generatePuzzle(3, 9) has returned a puzzle with 40 zero cells
C4_Witness ==
    /\ pc = "generated"
    /\ request.size = 9
    /\ request.difficulty = 3
    /\ Cardinality(EmptyCellsOf(result.puzzle, 9)) = 40

\* C5: solvePuzzle on a copy of a puzzle produced by generatePuzzle returns
\* true and leaves the copy a complete grid that satisfies the validity
\* invariant and agrees with the puzzle on every non-zero cell
C5_PuzzleSolvable ==
    (pc = "solved" /\ passedGrid = result.puzzle) =>
        /\ solved
        /\ ValidSolution(solveGrid, request.size)
        /\ \A cell \in Cells(request.size) :
               result.puzzle[cell[1]][cell[2]] # 0 =>
                   solveGrid[cell[1]][cell[2]] =
                       result.puzzle[cell[1]][cell[2]]

\* C6: whenever solvePuzzle(grid) returns true, the grid is a solution: no
\* empty cell, and every row, column and box holds each value 1..N exactly
\* once, also when the cells filled in the input conflict or none is empty
C6_TrueMeansSolution ==
    (pc = "solved" /\ solved) =>
        ValidSolution(solveGrid, GridLength(solveGrid))

\* C7: whenever solvePuzzle(grid) returns false, the grid on return is
\* cell for cell the grid passed in
C7_FalseRestores ==
    (pc = "solved" /\ ~solved) => solveGrid = passedGrid

\* solvePuzzle has returned false on a grid in whose first empty cell a
\* value passed the validator, so that the search placed values
C7_Witness ==
    /\ pc = "solved"
    /\ ~solved
    /\ FirstEmpty(passedGrid) # -1
    /\ LET n == GridLength(passedGrid)
           k == FirstEmpty(passedGrid)
       IN  \E num \in 1 .. n :
               isValidForGrid(passedGrid, k \div n, k % n, num)

\* the result of getHint is right for the grid it was given
HintResult ==
    pc = "hinted" =>
        LET n == GridLength(passedGrid)
        IN  /\ hint = Null <=> EmptyCellsOf(passedGrid, n) = {}
            /\ hint # Null =>
                   /\ <<hint.row, hint.col>> \in Cells(n)
                   /\ passedGrid[hint.row][hint.col] = 0
                   /\ hint.value = result.solution[hint.row][hint.col]

\* a giveHint step leaves the solution alone, and the only cell of
\* currentGrid that differs afterwards is the one the caller wrote
HintFrame ==
    pc' = "hinted" =>
        /\ result' = result
        /\ solution' = solution
        /\ passedGrid' = currentGrid
        /\ \A cell \in Cells(GridLength(currentGrid)) :
               currentGrid'[cell[1]][cell[2]] # currentGrid[cell[1]][cell[2]]
                   => (hint' # Null /\ cell = <<hint'.row, hint'.col>>)

\* C8: getHint(currentGrid, solution) returns null if and only if
\* currentGrid has no cell equal to 0; otherwise, for every random draw, it
\* returns {row, col, value} with currentGrid[row][col] = 0 and
\* value = solution[row][col]; it changes neither grid
C8_Hint == [] HintResult /\ [][HintFrame]_vars

\* getHint has returned a hint other than the first empty cell
C8_Witness ==
    /\ pc = "hinted"
    /\ hint # Null
    /\ hint.row * GridLength(passedGrid) + hint.col # FirstEmpty(passedGrid)

\* num occurs in the row, in the column or in the box of (row, col); filled
\* is the set of the cells of g that are not empty
Occurs(g, filled, n, row, col, num) ==
    \E cell \in filled :
        /\ g[cell[1]][cell[2]] = num
        /\ \/ cell[1] = row
           \/ cell[2] = col
           \/ /\ cell[1] \div BoxRows(n) = row \div BoxRows(n)
              /\ cell[2] \div BoxCols(n) = col \div BoxCols(n)

\* C9: for N in {4, 6, 9}, every cell and every num in 1..N, the validator
\* (isValid on the generator's grid, isValidForGrid on a grid passed in)
\* returns false exactly when num occurs in the row, in the column or in
\* the box of the cell
C9_ValidatorExact ==
    pc = "sized" =>
        LET filled == Filled(grid, size)
        IN  \A cell \in Cells(size) : \A num \in 1 .. size :
                LET occurs == Occurs(grid, filled, size, cell[1], cell[2], num)
                IN  /\ isValid(grid, size, boxSize, cell[1], cell[2], num)
                           = ~occurs
                    /\ isValidForGrid(grid, cell[1], cell[2], num) = ~occurs

\* N = 6 with a 4 at (0, 3): 4 is rejected at (1, 4), in the same 2x3 box,
\* and accepted at (2, 4), outside the row, the column and the box
C9_Witness ==
    /\ pc = "sized"
    /\ size = 6
    /\ grid[0][3] = 4
    /\ ~isValid(grid, size, boxSize, 1, 4, 4)
    /\ ~isValidForGrid(grid, 1, 4, 4)
    /\ isValid(grid, size, boxSize, 2, 4, 4)

\* the windows W(cell) partition the n x n grid into n boxes of n cells:
\* every cell lies in its window, the windows lie inside the grid, there are
\* n of them, each of n cells, and two different windows share no cell
Partition(n, W(_)) ==
    LET boxes == {W(cell) : cell \in Cells(n)}
    IN  /\ \A cell \in Cells(n) : cell \in W(cell)
        /\ \A box \in boxes : box \subseteq Cells(n) /\ Cardinality(box) = n
        /\ Cardinality(boxes) = n
        /\ \A b1, b2 \in boxes : b1 # b2 => b1 \cap b2 = {}

\* C10: for N in {4, 6, 9}, the box windows used by the validator partition
\* the N x N grid: every cell lies in exactly one box, every box lies inside
\* the grid, there are N boxes and each has N cells
C10_BoxesPartition ==
    pc = "sized" =>
        /\ Partition(size, LAMBDA cell :
               BoxWindow(size, boxSize, cell[1], cell[2]))
        /\ Partition(size, LAMBDA cell :
               BoxWindowForGrid(GridLength(grid), cell[1], cell[2]))

\* setSize(6) has run: the windows are the 2x3 ones
C10_Witness ==
    /\ pc = "sized"
    /\ size = 6
    /\ BoxWindow(size, boxSize, 3, 4) = {2, 3} \X {3, 4, 5}

\* C11: once generatePuzzle has returned {puzzle, solution}, no later
\* generatePuzzle, generateComplete or getHint call, and no solvePuzzle call
\* on another grid, changes a cell of that puzzle or of that solution; the
\* solution returned is the object the generator's solution field referred
\* to at the return
C11_ReturnedGridsKept ==
    held # NoHeld =>
        /\ heap[held.puzzle] = held.puzzleWas
        /\ heap[held.solution] = held.solutionWas
        /\ held.solution = held.internal

\* a caller keeps a {puzzle, solution}, and a later call has made the
\* generator's grid and solution fields other grids than the ones kept
C11_Witness ==
    /\ held # NoHeld
    /\ generator.solution # held.solution
    /\ heap[generator.solution] # held.solutionWas
    /\ heap[generator.grid] # held.solutionWas
    /\ solved

\* C12: generateComplete starts at most 10 attempts, each on a grid of
\* zeros; it returns the grid of the first attempt that succeeds and starts
\* no attempt after it; createFallbackGrid runs only after exactly 10
\* attempts that have all failed
C12_AttemptsThenFallback ==
    /\ gen.started <= maxAttempts
    /\ (gen.phase = "filling" /\ run.visits = 0) => grid = ZeroGrid(size)
    /\ gen.phase = "loop" => gen.attempts = gen.started
    /\ (gen.phase = "returned" /\ ~gen.fallback) =>
           /\ gen.started = gen.attempts + 1
           /\ run.ret = "true"
           /\ grid = run.grid
    /\ gen.fallback =>
           /\ gen.phase = "returned"
           /\ gen.attempts = maxAttempts
           /\ gen.started = maxAttempts

\* generateComplete has returned the grid of its last possible attempt,
\* after maxAttempts - 1 attempts that failed
C12_Witness ==
    /\ gen.phase = "returned"
    /\ ~gen.fallback
    /\ gen.attempts = maxAttempts - 1
    /\ size = 9

\* C13: for N = 4, 6 and 9, whatever the shuffles and the clock,
\* generateComplete terminates, and the grid it returns is N x N with no
\* empty cell and equal, cell for cell, to the solution field
C13_ReturnsFullGrid ==
    /\ [](pc = "completed" =>
            /\ IsGrid(grid, size)
            /\ EmptyCellsOf(grid, size) = {}
            /\ solution = grid)
    /\ (pc = "generating" ~> pc = "completed")

\* generateComplete has returned a 9 x 9 grid after load set in during an
\* attempt
C13_Witness ==
    /\ pc = "completed"
    /\ size = 9
    /\ gen.fallback
    /\ gen.risen

\* a visit of the attempt in progress, or of the last attempt, has observed
\* an elapsed time above the timeout
TimedOut == gen.timedOutAt # <<-1, -1>>

\* C14: once a cell visit of a fill attempt has observed an elapsed time
\* above 5000 ms, the attempt returns false from fillGrid, also when the
\* grid was completely filled at that visit; no further value is placed in
\* the grid; the grid holds only zeros when fillGrid returns; and
\* generateComplete counts one failed attempt and goes on with the loop
C14_TimeoutAborts ==
    TimedOut =>
        /\ ~gen.placedAfter
        /\ (gen.phase = "filling" /\ Returned(run)) =>
               (run.ret = "false" /\ grid = ZeroGrid(size))
        /\ gen.phase = "loop" => gen.attempts = gen.started
        /\ gen.phase = "returned" => gen.fallback

\* no row, column or box of g holds a non-zero value twice
NoDuplicate(g, n) ==
    \A u \in RowUnits(n) \cup ColUnits(n) \cup BoxUnits(n) :
        Cardinality({g[cell[1]][cell[2]] : cell \in u} \ {0}) =
            Cardinality({cell \in u : g[cell[1]][cell[2]] # 0})

\* the cursor of the recursion m, as row * n + col: the cell of the
\* activation just entered, or of the activation that has just returned
Cursor(m, n) ==
    IF m.ret = "call" THEN Top(m.stack).row * n + Top(m.stack).col
    ELSE IF m.stack = <<>> THEN 0
    ELSE IF Top(m.stack).k = 0
    THEN (Top(m.stack).row + 1) * n
    ELSE Top(m.stack).row * n + Top(m.stack).col + 1

\* C15: in every state of a fill attempt started from a grid of zeros, no
\* row, column or box holds a non-zero value twice, and the non-zero cells
\* are exactly the cells before the cursor in row-major order; when
\* fillGridRecursive(row, col) returns false, the cell (row, col) and the
\* cells after it are 0 and the cells before it hold what the pending
\* activations placed; when fillGrid returns true no cell is 0
C15_FillInvariant ==
    gen.phase = "filling" =>
        /\ NoDuplicate(grid, size)
        /\ grid = run.grid
        /\ run.ret # "true" =>
               \A cell \in Cells(size) :
                   grid[cell[1]][cell[2]] # 0
                       <=> cell[1] * size + cell[2] < Cursor(run, size)
        /\ \A i \in 1 .. Len(run.stack) :
               (run.stack[i].k > 0 /\ (i < Len(run.stack) \/ run.ret # "call"))
                   => grid[run.stack[i].row][run.stack[i].col] =
                          run.stack[i].numbers[run.stack[i].k]
        /\ run.ret = "true" => EmptyCellsOf(grid, size) = {}

\* fillGridRecursive(row, col) has returned false to the activation of the
\* cell before it because its candidates ran out, with no timeout observed
C15_Witness ==
    /\ gen.phase = "filling"
    /\ run.ret = "false"
    /\ ~TimedOut
    /\ run.stack # <<>>
    /\ Top(run.stack).k > 0

RECURSIVE Completable(_, _, _)
\* some assignment of values 1..n to the cells in empty makes g satisfy the
\* validity invariant
Completable(g, n, empty) ==
    IF empty = {}
    THEN ValidSolution(g, n)
    ELSE \E cell \in {CHOOSE c \in empty : TRUE} :
         \E v \in 1 .. n :
         \E filled \in {[g EXCEPT ![cell[1]][cell[2]] = v]} :
             NoDuplicate(filled, n) /\ Completable(filled, n, empty \ {cell})

\* C16: on an N x N grid, N in {4, 6, 9}, whose non-zero cells hold no value
\* twice in a row, column or box, solvePuzzle terminates, and it returns
\* false only if no assignment of values to the empty cells satisfies the
\* validity invariant
C16_SolverExhaustive ==
    /\ pc # "unfinished"
    /\ (/\ pc = "solved"
        /\ ~solved
        /\ NoDuplicate(passedGrid, GridLength(passedGrid))) =>
           ~Completable(passedGrid, GridLength(passedGrid),
                        EmptyCellsOf(passedGrid, GridLength(passedGrid)))

\* solvePuzzle has returned false on a 6 x 6 grid with empty cells whose
\* non-zero cells hold no value twice in a row, column or box
C16_Witness ==
    /\ pc = "solved"
    /\ ~solved
    /\ GridLength(passedGrid) = 6
    /\ NoDuplicate(passedGrid, 6)
    /\ EmptyCellsOf(passedGrid, 6) # {}

\* C17: solvePuzzle never changes a cell that was non-zero when it was
\* called: in every state of the search, and on return, every such cell
\* holds the value it had; only cells that were empty are written
C17_GivenCellsKept ==
    /\ pc = "solving" =>
           \A cell \in Cells(GridLength(passedGrid)) :
               passedGrid[cell[1]][cell[2]] # 0 =>
                   run.grid[cell[1]][cell[2]] = passedGrid[cell[1]][cell[2]]
    /\ pc = "solved" =>
           \A cell \in Cells(GridLength(passedGrid)) :
               passedGrid[cell[1]][cell[2]] # 0 =>
                   solveGrid[cell[1]][cell[2]] = passedGrid[cell[1]][cell[2]]

\* the search is under way on a grid with given cells: it has placed a
\* value, and a call has returned false to the activation that placed it
C17_Witness ==
    /\ pc = "solving"
    /\ run.ret = "false"
    /\ run.stack # <<>>
    /\ run.grid # passedGrid
    /\ \E cell \in Cells(GridLength(passedGrid)) :
           passedGrid[cell[1]][cell[2]] # 0

\* C18: after setSize(N), isValid(row, col, num) and
\* isValidForGrid(this.grid, row, col, num) are equal for every content of
\* the grid, every cell and every num in 1..N; isValidForGrid and
\* solvePuzzle take the size from the grid passed in: on a grid of
\* dimension M they give what the validator set to M gives, and a solution
\* of dimension M, whatever size setSize has set
C18_ValidatorsAgree ==
    pc = "sized" =>
        /\ \A cell \in Cells(size), num \in 1 .. size :
               isValid(grid, size, boxSize, cell[1], cell[2], num)
                   <=> isValidForGrid(grid, cell[1], cell[2], num)
        /\ Filled(grid, size) = {} =>
               \A m \in Sizes :
                   /\ \A cell \in Cells(m), num \in 1 .. m :
                          isValidForGrid(PassedIn(m), cell[1], cell[2], num)
                              <=> isValid(PassedIn(m), m, BoxSizeOf(m),
                                          cell[1], cell[2], num)
                   /\ Solve(PassedIn(m)).ok
                   /\ ValidSolution(Solve(PassedIn(m)).grid, m)

\* setSize(6) and a placement: the two validators reject the placed value
\* for a cell of the same box in another row and another column
C18_Witness ==
    /\ pc = "sized"
    /\ size = 6
    /\ \E a \in Filled(grid, 6), c \in Cells(6) :
           /\ c[1] # a[1]
           /\ c[2] # a[2]
           /\ ~isValidForGrid(grid, c[1], c[2], grid[a[1]][a[2]])
           /\ ~isValid(grid, 6, boxSize, c[1], c[2], grid[a[1]][a[2]])

\* one of the cells in holders, other than (row, col), is in the row, the
\* column or the box of (row, col)
OccursElsewhere(holders, n, row, col) ==
    \E cell \in holders \ {<<row, col>>} :
        \/ cell[1] = row
        \/ cell[2] = col
        \/ /\ cell[1] \div BoxRows(n) = row \div BoxRows(n)
           /\ cell[2] \div BoxCols(n) = col \div BoxCols(n)

\* C19: for gridSize 4, 6 and 9, every cell and every value in 1..gridSize,
\* hasConflict(row, col, value) is true exactly when isValidForGrid is false
\* on the same grid with the cell (row, col) set to 0, that is, when the
\* value is held by another cell of the row, the column or the box
C19_ConflictAgrees ==
    pc = "restored" =>
        \A value \in 1 .. request.size :
            LET holders == {cell \in Cells(request.size) :
                               currentGrid[cell[1]][cell[2]] = value}
            IN  \A cell \in Cells(request.size) :
                    /\ hasConflict(currentGrid, request.size, cell[1],
                                   cell[2], value)
                           <=> ~isValidForGrid(
                                   [currentGrid EXCEPT
                                       ![cell[1]][cell[2]] = 0],
                                   cell[1], cell[2], value)
                    /\ hasConflict(currentGrid, request.size, cell[1],
                                   cell[2], value)
                           <=> OccursElsewhere(holders, request.size,
                                               cell[1], cell[2])

\* a restored 6 x 6 game in which the value of a cell conflicts with another
\* cell, and the value of another cell conflicts with none
C19_Witness ==
    /\ pc = "restored"
    /\ request.size = 6
    /\ \E cell \in Cells(6) :
           /\ currentGrid[cell[1]][cell[2]] # 0
           /\ hasConflict(currentGrid, 6, cell[1], cell[2],
                          currentGrid[cell[1]][cell[2]])
    /\ \E cell \in Cells(6) :
           /\ currentGrid[cell[1]][cell[2]] # 0
           /\ ~hasConflict(currentGrid, 6, cell[1], cell[2],
                           currentGrid[cell[1]][cell[2]])

\* C20: every game started with newGame gets a fresh timer: after newGame,
\* startTime is the time of that newGame call, also when an earlier game
\* was played, completed or restored in the same page session
C20_FreshTimer ==
    pc = "generated" => startTime = request.at

----------------------------------------------------------------------------
\* the cells of g that hold a value found elsewhere in their row, column or
\* box
Conflicting(g, n) ==
    {cell \in Cells(n) :
        /\ g[cell[1]][cell[2]] # 0
        /\ \E other \in Cells(n) \ {cell} :
              /\ g[other[1]][other[2]] = g[cell[1]][cell[2]]
              /\ \/ other[1] = cell[1]
                 \/ other[2] = cell[2]
                 \/ /\ other[1] \div BoxRows(n) = cell[1] \div BoxRows(n)
                    /\ other[2] \div BoxCols(n) = cell[2] \div BoxCols(n)}

\* C21: a game is completed (timer stopped, score saved, saved game cleared,
\* win modal shown) only when currentGrid has no empty cell and no cell
\* conflicts with another cell in its row, column or box, on every path
\* that can trigger completion: a cell input, a hint, Check and Solve.
C21_CompletedOnlyWhenSolved ==
    [][scores' = scores + 1 =>
          /\ EmptyCells(currentGrid') = << >>
          /\ Conflicting(currentGrid', request.size) = {}]_vars

----------------------------------------------------------------------------
\* C22: at most one score entry is saved per game: between two newGame
\* calls completePuzzle runs at most once, and after it has run no saved
\* game state of that game is written to storage again.
C22_OneScorePerGame ==
    /\ completions <= 1
    /\ completions = 1 => ~savedGame

====
